---- MODULE Spec2Model ----
(***************************************************************************)
(* A model of the card-creation core of the flashcard application:         *)
(*   cards/forms.py  CodeBlockValidator, TagStringValidator, CardForm      *)
(*   cards/views.py  add_card, get_detail_card_by_id                       *)
(* Strings are sequences of one-character strings; Python indices are      *)
(* 0-based, so character i of a Python string s is s[i + 1] here.          *)
(***************************************************************************)
EXTENDS Integers, Sequences, FiniteSets, TLC

VARIABLES
    \* CodeBlockValidator.__call__ on one text
    value,        \* the text handed to the validator
    vpc,          \* "call" | "loop" | "returned" | "raised"
    code_blocks,  \* the list re.findall produced
    bi,           \* number of blocks of code_blocks already validated
    reads,        \* the indices validate_code_block subscripted in the last block
    result,       \* "none" | "OK" | an error name | "IndexError"
    \* the tags field of CardForm on one raw string
    raw,          \* the submitted tag string
    tpc,          \* "clean" | "done"
    tresult,      \* [ok |-> BOOLEAN, error |-> name, tags |-> list of names]
    \* the store, and one request at a time on the add-card form
    cards,        \* the persisted Card rows (their ids)
    tags,         \* the persisted Tag rows, [id, name]
    assoc,        \* the card-tag association rows, <<card id, tag id>>
    request,      \* the request being handled
    fpc,          \* "idle" | "pending" | "tags" | "failed"
    instance,     \* the id of the card CardForm.save persisted, 0 for none
    ti,           \* number of tag names CardForm.save has processed
    response,     \* what the last finished request produced
    \* concurrent card detail requests
    views,        \* the views column, card id -> counter
    rpc,          \* request -> "new" | "fetched" | "saved" | "done" | "404"
    card_id,      \* request -> the card id in its URL
    card          \* request -> the views attribute of its in-memory Card object

vars == <<value, vpc, code_blocks, bi, reads, result, raw, tpc, tresult,
          cards, tags, assoc, request, fpc, instance, ti, response,
          views, rpc, card_id, card>>

validatorVars == <<value, vpc, code_blocks, bi, reads, result>>
tagVars == <<raw, tpc, tresult>>
storeVars == <<cards, tags, assoc, request, fpc, instance, ti, response>>
viewVars == <<views, rpc, card_id, card>>

-----------------------------------------------------------------------------
(* Bounds *)

MaxTokens == 7

-----------------------------------------------------------------------------
(* Python string primitives *)

\* The backquote character (a TLA+ string cannot hold one)
Backquote == "backquote"

\* The 3-character fence marker
Fence == <<Backquote, Backquote, Backquote>>

\* s[i:j] for 0 <= i <= j <= len(s)
Slice(s, i, j) == SubSeq(s, i + 1, j)

\* whether sub occurs in s at 0-based position i
OccursAt(s, sub, i) ==
    /\ i >= 0
    /\ i + Len(sub) <= Len(s)
    /\ \A k \in 1..Len(sub) : s[i + k] = sub[k]

\* s.find(sub, start): the lowest position >= start, or -1
Find(s, sub, start) ==
    LET hits == {i \in start..(Len(s) - Len(sub)) : OccursAt(s, sub, i)}
    IN  IF hits = {} THEN -1 ELSE CHOOSE i \in hits : \A j \in hits : i <= j

\* s.rfind(sub): the highest position, or -1
RFind(s, sub) ==
    LET hits == {i \in 0..(Len(s) - Len(sub)) : OccursAt(s, sub, i)}
    IN  IF hits = {} THEN -1 ELSE CHOOSE i \in hits : \A j \in hits : i >= j

\* sub in s
Contains(s, sub) == Find(s, sub, 0) # -1

\* s[i]: a negative index counts from the end, an index outside
\* -len(s)..len(s)-1 raises IndexError
Subscript(s, i) ==
    LET j == IF i < 0 THEN i + Len(s) ELSE i
    IN  IF j < 0 \/ j >= Len(s) THEN "IndexError" ELSE s[j + 1]

-----------------------------------------------------------------------------
(* CodeBlockValidator *)

\* The end (exclusive) of the match of the pattern  fence [\s\S]+? fence
\* that starts at i, or -1:
\* the opening marker at i, at least one character, then the first marker.
MatchEnd(s, i) ==
    IF ~OccursAt(s, Fence, i) THEN -1
    ELSE LET p == Find(s, Fence, i + 4)
         IN  IF p = -1 THEN -1 ELSE p + 3

\* The first match at or after position from, as <<start, end>>, or <<-1, -1>>
NextMatch(s, from) ==
    LET starts == {i \in from..Len(s) : MatchEnd(s, i) # -1}
    IN  IF starts = {} THEN <<-1, -1>>
        ELSE LET i == CHOOSE x \in starts : \A y \in starts : x <= y
             IN  <<i, MatchEnd(s, i)>>

\* The text of a match
BlockWhole(s, m) == Slice(s, m[1], Len(s))
BlockWithPrecedingChar(s, m) == Slice(s, IF m[1] > 0 THEN m[1] - 1 ELSE 0, m[2])
BlockOf(s, m) == Slice(s, m[1], m[2])

\* The spans re.findall reports: non-overlapping, left to right
RECURSIVE FindSpans(_, _)
FindSpans(s, from) ==
    LET m == NextMatch(s, from)
    IN  IF m[1] = -1 THEN <<>> ELSE <<m>> \o FindSpans(s, m[2])

\* re.findall of the fence pattern in value: the text of each span
FindAll(s) ==
    LET spans == FindSpans(s, 0)
    IN  [k \in 1..Len(spans) |-> BlockOf(s, spans[k])]

Outcome(e, r) == [error |-> e, reads |-> r]

\* validate_code_block(block): the error raised ("OK" for a normal return)
\* and the indices subscripted on the way
validate_code_block(block) ==
    LET opening_tick_index == Find(block, Fence, 0)
        closing_tick_index == RFind(block, Fence)
        content_start == opening_tick_index + 3
        language_name_end == Find(block, <<"\n">>, content_start)
        before_open == Subscript(block, opening_tick_index - 1)
        after_open == Subscript(block, content_start)
        after_lang == Subscript(block, language_name_end + 1)
        before_close == Subscript(block, closing_tick_index - 1)
        r2 == <<opening_tick_index - 1>>
        r3 == r2 \o <<content_start>>
        r5 == r3 \o <<language_name_end + 1>>
        r6 == r5 \o <<closing_tick_index - 1>>
    IN  IF opening_tick_index = closing_tick_index
            THEN Outcome("NoClosingPair", <<>>)
        ELSE IF before_open = "IndexError" THEN Outcome("IndexError", r2)
        ELSE IF before_open = " " THEN Outcome("SpaceBeforeOpening", r2)
        ELSE IF after_open = "IndexError" THEN Outcome("IndexError", r3)
        ELSE IF after_open = " " THEN Outcome("SpaceAfterOpening", r3)
        ELSE IF language_name_end = -1 \/ language_name_end - content_start < 2
            THEN Outcome("MissingLanguage", r3)
        ELSE IF after_lang = "IndexError" THEN Outcome("IndexError", r5)
        ELSE IF after_lang # "\n" THEN Outcome("NoBlankLine", r5)
        ELSE IF before_close = "IndexError" THEN Outcome("IndexError", r6)
        ELSE IF before_close = " " THEN Outcome("SpaceBeforeClosing", r6)
        ELSE Outcome("OK", r6)

\* The inputs: every concatenation of at most MaxTokens tokens
Tokens == {Fence, <<"a">>, <<" ">>, <<"\n">>}

RECURSIVE TextsOf(_)
TextsOf(n) ==
    IF n = 0 THEN {<<>>}
    ELSE LET shorter == TextsOf(n - 1)
         IN  shorter \cup {t \o tok : t \in shorter, tok \in Tokens}

Texts == TextsOf(MaxTokens)

ValidatorInit ==
    /\ value \in Texts
    /\ vpc = "call"
    /\ code_blocks = <<>>
    /\ bi = 0
    /\ reads = <<>>
    /\ result = "none"

\* __call__, up to the loop: no marker, return; no closed span, raise
Call ==
    /\ vpc = "call"
    /\ IF ~Contains(value, Fence)
           THEN /\ vpc' = "returned"
                /\ result' = "OK"
                /\ code_blocks' = code_blocks
       ELSE IF FindAll(value) = <<>>
           THEN /\ vpc' = "raised"
                /\ result' = "NoClosingPair"
                /\ code_blocks' = code_blocks
       ELSE /\ vpc' = "loop"
            /\ result' = result
            /\ code_blocks' = FindAll(value)
    /\ UNCHANGED <<value, bi, reads>>
    /\ UNCHANGED <<tagVars, storeVars, viewVars>>

\* one iteration of the loop: validate_code_block on the next block
ValidateBlock ==
    /\ vpc = "loop"
    /\ bi < Len(code_blocks)
    /\ LET out == validate_code_block(code_blocks[bi + 1])
       IN  /\ reads' = out.reads
           /\ bi' = bi + 1
           /\ IF out.error # "OK"
                  THEN /\ vpc' = "raised"
                       /\ result' = out.error
                  ELSE /\ vpc' = vpc
                       /\ result' = result
    /\ UNCHANGED <<value, code_blocks>>
    /\ UNCHANGED <<tagVars, storeVars, viewVars>>

\* the loop is exhausted: __call__ returns
CallReturn ==
    /\ vpc = "loop"
    /\ bi = Len(code_blocks)
    /\ vpc' = "returned"
    /\ result' = "OK"
    /\ UNCHANGED <<value, code_blocks, bi, reads>>
    /\ UNCHANGED <<tagVars, storeVars, viewVars>>

ValidatorNext == Call \/ ValidateBlock \/ CallReturn

\* CodeBlockValidator()(text) as one call: the first error of the blocks in order
RECURSIVE FirstError(_, _)
FirstError(blocks, k) ==
    IF k > Len(blocks) THEN "OK"
    ELSE LET out == validate_code_block(blocks[k])
         IN  IF out.error # "OK" THEN out.error ELSE FirstError(blocks, k + 1)

CodeBlockValidator(text) ==
    IF ~Contains(text, Fence) THEN "OK"
    ELSE IF FindAll(text) = <<>> THEN "NoClosingPair"
    ELSE FirstError(FindAll(text), 1)

-----------------------------------------------------------------------------
(* The tags field of CardForm: forms.CharField, TagStringValidator, clean_tags *)

MaxRawLen == 5

Whitespace == {" ", "\t", "\n"}

\* str.strip()
RECURSIVE LStrip(_)
LStrip(s) ==
    IF s # <<>> /\ Head(s) \in Whitespace THEN LStrip(Tail(s)) ELSE s

RECURSIVE RStrip(_)
RStrip(s) ==
    IF s # <<>> /\ s[Len(s)] \in Whitespace
        THEN RStrip(SubSeq(s, 1, Len(s) - 1))
        ELSE s

Strip(s) == RStrip(LStrip(s))

\* str.lower()
LowerChar(c) == IF c = "B" THEN "b" ELSE IF c = "X" THEN "x" ELSE c
Lower(s) == [k \in 1..Len(s) |-> LowerChar(s[k])]

\* str.split(','): the pieces between the commas, empty ones included
RECURSIVE Split(_)
Split(s) ==
    LET p == Find(s, <<",">>, 0)
    IN  IF p = -1 THEN <<s>>
        ELSE <<Slice(s, 0, p)>> \o Split(Slice(s, p + 1, Len(s)))

\* TagStringValidator()(value): whether it raises
TagStringValidator(v) == Contains(v, <<" ">>)

\* forms.CharField.to_python with the default strip=True
to_python(v) == Strip(v)

\* clean_tags on the field's cleaned value
RECURSIVE NonEmptyStripped(_)
NonEmptyStripped(pieces) ==
    IF pieces = <<>> THEN <<>>
    ELSE LET t == Strip(Head(pieces))
         IN  (IF t # <<>> THEN <<t>> ELSE <<>>) \o NonEmptyStripped(Tail(pieces))

clean_tags_nolower(v) == NonEmptyStripped(Split(v))
clean_tags(v) == NonEmptyStripped(Split(Lower(v)))

\* Field.clean then clean_tags for the tags field: to_python, the validators
\* (skipped for an empty value, the field being optional), then clean_tags
CleanTagsField(rawv) ==
    LET v == to_python(rawv)
    IN  IF v # <<>> /\ TagStringValidator(v)
            THEN [ok |-> FALSE, error |-> "InvalidTagFormat", tags |-> <<>>]
            ELSE [ok |-> TRUE, error |-> "none", tags |-> clean_tags(v)]

TagChars == {"a", "B", ",", " ", "\t"}

RECURSIVE StringsOf(_, _)
StringsOf(chars, n) ==
    IF n = 0 THEN {<<>>}
    ELSE LET shorter == StringsOf(chars, n - 1)
         IN  shorter \cup {t \o <<c>> : t \in shorter, c \in chars}

NoTagResult == [ok |-> FALSE, error |-> "none", tags |-> <<>>]

TagsInit ==
    /\ raw \in StringsOf(TagChars, MaxRawLen)
    /\ tpc = "clean"
    /\ tresult = NoTagResult

\* full_clean of the tags field of a bound form
CleanTags ==
    /\ tpc = "clean"
    /\ tpc' = "done"
    /\ tresult' = CleanTagsField(raw)
    /\ UNCHANGED raw
    /\ UNCHANGED <<validatorVars, storeVars, viewVars>>

TagsNext == CleanTags

-----------------------------------------------------------------------------
(* The store, CardForm and the add_card view *)

MaxCards == 3

\* Answer texts a request may carry
AnswerPlain == <<"a">>
AnswerGoodBlock == Fence \o <<"a", "a", "\n", "\n">> \o Fence
AnswerUnclosed == Fence \o <<"a">>
AnswerSpaceAfterOpening == Fence \o <<" ", "a", "a", "\n", "\n">> \o Fence
Answers == {AnswerPlain, AnswerGoodBlock, AnswerUnclosed, AnswerSpaceAfterOpening}

\* Raw tag strings a request may carry
RawXXY == <<"x", ",", "x", ",", "y">>
RawTagInputs ==
    {<<>>, <<"x">>, RawXXY, <<"y", ",", "x">>, <<"X", ",", "y">>,
     <<"x", ",", " ", "y">>}

Requests ==
    [method : {"GET", "POST"}, answer : Answers, category : {"none", "c1"},
     tags : RawTagInputs]

NoRequest == [method |-> "none", answer |-> <<>>, category |-> "none", tags |-> <<>>]
NoResponse == [kind |-> "none", card |-> 0, errors |-> {}]

\* The validators of the answer field: the code-block validator
AnswerFieldError(answer) == CodeBlockValidator(answer) # "OK"

\* form.errors after full_clean: the fields that failed
FormErrors(req) ==
    (IF AnswerFieldError(req.answer) THEN {"answer"} ELSE {})
    \cup (IF req.category = "none" THEN {"category"} ELSE {})
    \cup (IF ~CleanTagsField(req.tags).ok THEN {"tags"} ELSE {})

is_valid(req) == FormErrors(req) = {}

\* form.cleaned_data['tags'] of a valid form
cleaned_tags(req) == CleanTagsField(req.tags).tags

\* Model.save() of a new row: the id the insert assigns
NewId(rows) == Cardinality(rows) + 1

\* add_card: whether the view writes the card
PersistsAnyPost(req) == req.method = "POST"
Persists(req) == req.method = "POST" /\ is_valid(req)

\* Tag.objects.get_or_create(name=tag_name): the tag and the table afterwards
CreateAlways(ts, name) ==
    LET t == [id |-> NewId(ts), name |-> name]
    IN  [tag |-> t, tags |-> ts \cup {t}]
get_or_create(ts, name) ==
    IF \E t \in ts : t.name = name
        THEN [tag |-> CHOOSE t \in ts : t.name = name, tags |-> ts]
        ELSE LET t == [id |-> NewId(ts), name |-> name]
             IN  [tag |-> t, tags |-> ts \cup {t}]

\* instance.tags.add(tag): the association table afterwards
AddNothing(rows, c, t) == rows
tags_add(rows, c, t) == rows \cup {<<c, t.id>>}

StoreInit ==
    /\ cards = {}
    /\ tags = {}
    /\ assoc = {}
    /\ request = NoRequest
    /\ fpc = "idle"
    /\ instance = 0
    /\ ti = 0
    /\ response = NoResponse

\* a request arrives at the add-card form
Submit ==
    /\ fpc \in {"idle", "failed"}
    /\ Cardinality(cards) < MaxCards
    /\ request' \in Requests
    /\ fpc' = "pending"
    /\ instance' = 0
    /\ ti' = 0
    /\ response' = NoResponse
    /\ UNCHANGED <<cards, tags, assoc>>
    /\ UNCHANGED <<validatorVars, tagVars, viewVars>>

\* the add_card view handles the request
add_card ==
    /\ fpc = "pending"
    /\ IF Persists(request)
           THEN /\ cards' = cards \cup {NewId(cards)}
                /\ response' = [kind |-> "redirect", card |-> NewId(cards),
                                errors |-> {}]
           ELSE /\ cards' = cards
                /\ response' = [kind |-> "render", card |-> 0,
                                errors |-> IF request.method = "POST"
                                               THEN FormErrors(request) ELSE {}]
    /\ fpc' = "idle"
    /\ UNCHANGED <<tags, assoc, request, instance, ti>>
    /\ UNCHANGED <<validatorVars, tagVars, viewVars>>

\* CardForm.save on the bound, valid form: instance.save()
save_instance ==
    /\ fpc = "pending"
    /\ request.method = "POST"
    /\ is_valid(request)
    /\ cards' = cards \cup {NewId(cards)}
    /\ instance' = NewId(cards)
    /\ ti' = 0
    /\ fpc' = "tags"
    /\ UNCHANGED <<tags, assoc, request, response>>
    /\ UNCHANGED <<validatorVars, tagVars, viewVars>>

\* CardForm.save: one iteration of the loop over cleaned_data['tags']
save_tag ==
    /\ fpc = "tags"
    /\ ti < Len(cleaned_tags(request))
    /\ LET got == get_or_create(tags, cleaned_tags(request)[ti + 1])
       IN  /\ tags' = got.tags
           /\ assoc' = tags_add(assoc, instance, got.tag)
    /\ ti' = ti + 1
    /\ UNCHANGED <<cards, request, fpc, instance, response>>
    /\ UNCHANGED <<validatorVars, tagVars, viewVars>>

\* CardForm.save: the store raises inside get_or_create, before any write
save_tag_lookup_fails ==
    /\ fpc = "tags"
    /\ ti < Len(cleaned_tags(request))
    /\ fpc' = "failed"
    /\ response' = [kind |-> "exception", card |-> instance, errors |-> {}]
    /\ UNCHANGED <<cards, tags, assoc, request, instance, ti>>
    /\ UNCHANGED <<validatorVars, tagVars, viewVars>>

\* CardForm.save: the store raises inside instance.tags.add, after get_or_create
save_tag_add_fails ==
    /\ fpc = "tags"
    /\ ti < Len(cleaned_tags(request))
    /\ tags' = get_or_create(tags, cleaned_tags(request)[ti + 1]).tags
    /\ fpc' = "failed"
    /\ response' = [kind |-> "exception", card |-> instance, errors |-> {}]
    /\ UNCHANGED <<cards, assoc, request, instance, ti>>
    /\ UNCHANGED <<validatorVars, tagVars, viewVars>>

\* CardForm.save: the loop is exhausted, return instance
save_return ==
    /\ fpc = "tags"
    /\ ti = Len(cleaned_tags(request))
    /\ fpc' = "idle"
    /\ response' = [kind |-> "saved", card |-> instance, errors |-> {}]
    /\ UNCHANGED <<cards, tags, assoc, request, instance, ti>>
    /\ UNCHANGED <<validatorVars, tagVars, viewVars>>

StoreNext ==
    \/ Submit
    \/ add_card
    \/ save_instance
    \/ save_tag
    \/ save_tag_lookup_fails
    \/ save_tag_add_fails
    \/ save_return

-----------------------------------------------------------------------------
(* get_detail_card_by_id, several requests at once *)

MaxViewers == 3

Viewers == 1..MaxViewers

\* The cards in the table, and the ids a URL may name (one of them absent)
DetailCards == {"card1", "card2"}
UrlCards == DetailCards \cup {"absent"}

\* card.views = F('views') + 1; card.save(): the value the UPDATE stores, from
\* the column's current value and the attribute the request read earlier
ReadIncrementWrite(column, attribute) == attribute + 1
saved_views(column, attribute) == column + 1

ViewsInit ==
    /\ views = [c \in DetailCards |-> 0]
    /\ rpc = [r \in Viewers |-> "new"]
    /\ card_id \in [Viewers -> UrlCards]
    /\ card = [r \in Viewers |-> 0]

\* get_object_or_404(Card, pk=card_id)
get_object_or_404(r) ==
    /\ rpc[r] = "new"
    /\ IF card_id[r] \in DOMAIN views
           THEN /\ rpc' = [rpc EXCEPT ![r] = "fetched"]
                /\ card' = [card EXCEPT ![r] = views[card_id[r]]]
           ELSE /\ rpc' = [rpc EXCEPT ![r] = "404"]
                /\ card' = card
    /\ UNCHANGED <<views, card_id>>
    /\ UNCHANGED <<validatorVars, tagVars, storeVars>>

\* card.views = F('views') + 1; card.save()
card_save(r) ==
    /\ rpc[r] = "fetched"
    /\ views' = [views EXCEPT ![card_id[r]] = saved_views(@, card[r])]
    /\ rpc' = [rpc EXCEPT ![r] = "saved"]
    /\ card' = [card EXCEPT ![r] = "F(views) + 1"]
    /\ UNCHANGED card_id
    /\ UNCHANGED <<validatorVars, tagVars, storeVars>>

\* card.refresh_from_db(), then render
refresh_from_db(r) ==
    /\ rpc[r] = "saved"
    /\ card' = [card EXCEPT ![r] = views[card_id[r]]]
    /\ rpc' = [rpc EXCEPT ![r] = "done"]
    /\ UNCHANGED <<views, card_id>>
    /\ UNCHANGED <<validatorVars, tagVars, storeVars>>

ViewsNext ==
    \/ \E r \in Viewers : get_object_or_404(r)
    \/ \E r \in Viewers : card_save(r)
    \/ \E r \in Viewers : refresh_from_db(r)

-----------------------------------------------------------------------------
(* Specifications *)

\* The other components at rest
ValidatorIdle ==
    /\ value = <<>>
    /\ vpc = "returned"
    /\ code_blocks = <<>>
    /\ bi = 0
    /\ reads = <<>>
    /\ result = "OK"

TagsIdle ==
    /\ raw = <<>>
    /\ tpc = "done"
    /\ tresult = [ok |-> TRUE, error |-> "none", tags |-> <<>>]

ViewsIdle ==
    /\ views = [c \in DetailCards |-> 0]
    /\ rpc = [r \in Viewers |-> "done"]
    /\ card_id = [r \in Viewers |-> "absent"]
    /\ card = [r \in Viewers |-> 0]


InitValidator == ValidatorInit /\ TagsIdle /\ StoreInit /\ ViewsIdle
SpecValidator == InitValidator /\ [][ValidatorNext]_vars

InitTags == ValidatorIdle /\ TagsInit /\ StoreInit /\ ViewsIdle
SpecTags == InitTags /\ [][TagsNext]_vars

Init == ValidatorIdle /\ TagsIdle /\ StoreInit /\ ViewsIdle
Next == StoreNext
Spec == Init /\ [][Next]_vars

InitViews == ValidatorIdle /\ TagsIdle /\ StoreInit /\ ViewsInit
SpecViews == InitViews /\ [][ViewsNext]_vars

-----------------------------------------------------------------------------
(* Properties of CodeBlockValidator, under SpecValidator *)

ValidatorDone == vpc \in {"returned", "raised"}

\* The spans of the text as the pattern defines them: a match starts at a
\* marker and ends with the first marker that leaves a character between
IsMatch(t, i, j) ==
    /\ OccursAt(t, Fence, i)
    /\ j - 3 >= i + 4
    /\ OccursAt(t, Fence, j - 3)
    /\ \A p \in (i + 4)..(j - 4) : ~OccursAt(t, Fence, p)

Matches(t) == {m \in (0..Len(t)) \X (0..Len(t)) : IsMatch(t, m[1], m[2])}

\* The extracted spans: left to right, a match is taken unless an earlier
\* taken one overlaps it
Extracted(t) ==
    CHOOSE S \in SUBSET Matches(t) :
        \A m \in Matches(t) :
            m \in S <=> ~\E n \in S : n[1] < m[1] /\ n[2] > m[1]

\* The k-th extracted span from the left
SpanAt(t, k) ==
    CHOOSE m \in Extracted(t) :
        Cardinality({n \in Extracted(t) : n[1] < m[1]}) = k - 1

\* Character p (0-based) of the text
CharAt(t, p) == t[p + 1]

\* The line breaks of a span after its opening marker
LineBreaks(t, m) == {q \in (m[1] + 3)..(m[2] - 4) : CharAt(t, q) = "\n"}
FirstLineBreak(t, m) ==
    CHOOSE q \in LineBreaks(t, m) : \A x \in LineBreaks(t, m) : q <= x

\* The rules of the check order, stated on the text and a span of it
Violates(t, m, rule) ==
    CASE rule = 1 -> m[2] - 3 = m[1]
      [] rule = 2 -> m[1] > 0 /\ CharAt(t, m[1] - 1) = " "
      [] rule = 3 -> CharAt(t, m[1] + 3) = " "
      [] rule = 4 -> \/ LineBreaks(t, m) = {}
                     \/ FirstLineBreak(t, m) - (m[1] + 3) < 2
      [] rule = 5 -> /\ LineBreaks(t, m) # {}
                     /\ CharAt(t, FirstLineBreak(t, m) + 1) # "\n"
      [] rule = 6 -> CharAt(t, m[2] - 4) = " "

ErrorOfRule(rule) ==
    CASE rule = 1 -> "NoClosingPair"
      [] rule = 2 -> "SpaceBeforeOpening"
      [] rule = 3 -> "SpaceAfterOpening"
      [] rule = 4 -> "MissingLanguage"
      [] rule = 5 -> "NoBlankLine"
      [] rule = 6 -> "SpaceBeforeClosing"

Rules == {1, 2, 3, 4, 5, 6}
ViolatedRules(t, m) == {rule \in Rules : Violates(t, m, rule)}
LowestViolated(t, m) ==
    CHOOSE rule \in ViolatedRules(t, m) : \A x \in ViolatedRules(t, m) : rule <= x

\* A span is well formed by what lies inside it: rules 3 to 6
WellFormedInside(t, m) == ViolatedRules(t, m) \cap {3, 4, 5, 6} = {}

\* C1: a text whose first fenced block has a space right before its opening
\* marker is rejected with the space-before-opening error
C1_SpaceBeforeOpeningRejected ==
    (/\ ValidatorDone
     /\ Extracted(value) # {}
     /\ Violates(value, SpanAt(value, 1), 2))
        => result = "SpaceBeforeOpening"

\* C5: a rejected block is reported with the error of the lowest-numbered
\* rule it violates
C5_LowestViolatedRuleReported ==
    (vpc = "raised" /\ bi >= 1)
        => /\ ViolatedRules(value, SpanAt(value, bi)) # {}
           /\ result = ErrorOfRule(LowestViolated(value, SpanAt(value, bi)))

\* C6: the validator never faults with an out-of-range index: the lookup
\* before the opening marker, at position 0 of the block, never reports a
\* space, and the three other lookups fall inside the block
C6_NoIndexFault ==
    /\ result # "IndexError"
    /\ result # "SpaceBeforeOpening"
    /\ bi >= 1 =>
        /\ Len(reads) >= 1 => reads[1] = -1
        /\ \A k \in 2..Len(reads) :
               reads[k] >= 0 /\ reads[k] < Len(code_blocks[bi])

C6_Witness ==
    /\ vpc = "returned"
    /\ bi >= 1
    /\ Len(reads) = 4
    /\ reads[3] = Len(code_blocks[bi]) - 4

-----------------------------------------------------------------------------
(* Properties of the tags field, under SpecTags *)

\* The normalized list, stated on the comma positions of the string: the
\* pieces between commas, lower-cased, each cut to its first and last
\* non-blank character, the blank ones dropped, in order
Separators(s) == {0, Len(s) + 1} \cup {p \in 1..Len(s) : s[p] = ","}
NextSeparator(s, a) ==
    CHOOSE b \in Separators(s) :
        b > a /\ \A x \in Separators(s) : x > a => b <= x
Inked(s, a) == {p \in (a + 1)..(NextSeparator(s, a) - 1) : s[p] \notin Whitespace}
PieceStarts(s) == {a \in Separators(s) \ {Len(s) + 1} : Inked(s, a) # {}}
PieceOf(s, a) ==
    LET lo == CHOOSE p \in Inked(s, a) : \A x \in Inked(s, a) : p <= x
        hi == CHOOSE p \in Inked(s, a) : \A x \in Inked(s, a) : p >= x
    IN  [k \in 1..(hi - lo + 1) |-> LowerChar(s[lo + k - 1])]
ExpectedTags(s) ==
    [k \in 1..Cardinality(PieceStarts(s)) |->
        PieceOf(s, CHOOSE a \in PieceStarts(s) :
                       Cardinality({x \in PieceStarts(s) : x < a}) = k - 1)]

HasSpace(s) == \E p \in 1..Len(s) : s[p] = " "

\* The string without its leading and trailing blank characters
Trimmed(s) ==
    LET ink == {p \in 1..Len(s) : s[p] \notin Whitespace}
    IN  IF ink = {} THEN <<>>
        ELSE SubSeq(s, CHOOSE p \in ink : \A x \in ink : p <= x,
                       CHOOSE p \in ink : \A x \in ink : p >= x)

\* C7 as stated: a space anywhere in the raw string fails the field,
\* otherwise cleaning yields the normalized list
C7_AnySpaceRejected ==
    tpc = "done" =>
        IF HasSpace(raw)
            THEN ~tresult.ok /\ tresult.error = "InvalidTagFormat"
            ELSE tresult.ok /\ tresult.tags = ExpectedTags(raw)

\* C7 amended: a space that remains after the field has trimmed the leading
\* and trailing blanks of the raw string fails the field, otherwise cleaning
\* yields the normalized list
C7_InnerSpaceRejected ==
    tpc = "done" =>
        IF HasSpace(Trimmed(raw))
            THEN ~tresult.ok /\ tresult.error = "InvalidTagFormat"
            ELSE tresult.ok /\ tresult.tags = ExpectedTags(raw)

\* a raw string with a trailing space and an upper-case name, cleaned
C7_Witness ==
    /\ tpc = "done"
    /\ raw = <<"a", ",", "B", " ">>
    /\ tresult.ok
    /\ tresult.tags = <<<<"a">>, <<"b">>>>

-----------------------------------------------------------------------------
(* Properties of the store, under Spec *)

Names(list) == {list[k] : k \in 1..Len(list)}
TagsNamed(name) == {t \in tags : t.name = name}
TagsOfCard(c) == {a[2] : a \in {x \in assoc : x[1] = c}}

\* C2: after a successful add-card POST every normalized tag name of the
\* submission has exactly one tag, and the new card is associated with it
C2_SubmissionAttachesTags ==
    response.kind = "redirect" =>
        \A name \in Names(cleaned_tags(request)) :
            /\ Cardinality(TagsNamed(name)) = 1
            /\ \A t \in TagsNamed(name) : <<response.card, t.id>> \in assoc

\* C3: there is at most one tag per name, and a step creates a tag only for
\* a name that had none
C3_TagNamesUnique ==
    /\ [](\A t, u \in tags : t.name = u.name => t = u)
    /\ [][\A t \in tags' \ tags : TagsNamed(t.name) = {}]_vars

\* two cards share one tag: the second use of the name reused the record
C3_Witness ==
    \E c, d \in cards : \E t \in tags :
        /\ c # d
        /\ <<c, t.id>> \in assoc
        /\ <<d, t.id>> \in assoc

\* C4: an add-card POST on which the answer validator or the tag validator
\* fails writes nothing and renders the form with the errors of those fields
C4_InvalidPostWritesNothing ==
    [][(/\ fpc = "pending"
        /\ fpc' = "idle"
        /\ request.method = "POST"
        /\ \/ CodeBlockValidator(request.answer) # "OK"
           \/ ~CleanTagsField(request.tags).ok)
          => /\ cards' = cards
             /\ tags' = tags
             /\ assoc' = assoc
             /\ response'.kind = "render"
             /\ CodeBlockValidator(request.answer) # "OK"
                    => "answer" \in response'.errors
             /\ ~CleanTagsField(request.tags).ok
                    => "tags" \in response'.errors]_vars

\* a rejected POST answered after a card was stored
C4_Witness ==
    /\ fpc = "idle"
    /\ request.method = "POST"
    /\ response.kind = "render"
    /\ response.errors = {"answer", "tags"}
    /\ cards # {}

\* C9: an association row always joins a stored card and a stored tag, and
\* while CardForm.save runs, or after it failed, the card is stored with
\* exactly the tags of the names processed so far
C9_SaveProtocol ==
    /\ \A a \in assoc : a[1] \in cards /\ \E t \in tags : t.id = a[2]
    /\ fpc \in {"tags", "failed"} =>
        /\ instance \in cards
        /\ ti <= Len(cleaned_tags(request))
        /\ TagsOfCard(instance) =
               {t.id : t \in {u \in tags :
                    \E k \in 1..ti : cleaned_tags(request)[k] = u.name}}
        /\ \A k \in 1..ti : TagsNamed(cleaned_tags(request)[k]) # {}

\* the save failed on its third tag name, two being attached
C9_Witness ==
    /\ fpc = "failed"
    /\ request.tags = RawXXY
    /\ ti = 2
    /\ Cardinality(TagsOfCard(instance)) = 1
    /\ Cardinality(tags) = 2

-----------------------------------------------------------------------------
(* Properties of the view counter, under SpecViews *)

\* C8 as stated: the save writes the value the request read, plus one
C8_ReadIncrementWrite ==
    [][\A r \in Viewers :
          (rpc[r] = "fetched" /\ rpc'[r] = "saved")
              => views'[card_id[r]] = card[r] + 1]_vars

\* C8 amended: the counter of a card equals the number of requests on it
\* that have saved, in every interleaving
C8_NoLostUpdate ==
    \A c \in DetailCards :
        views[c] = Cardinality({r \in Viewers :
                        card_id[r] = c /\ rpc[r] \in {"saved", "done"}})

\* two requests on one card have both finished
C8_Witness ==
    \E r, q \in Viewers :
        /\ r # q
        /\ card_id[r] = card_id[q]
        /\ rpc[r] = "done"
        /\ rpc[q] = "done"
        /\ views[card_id[r]] = 2

====
